---------------------------- MODULE Spec2Model ----------------------------
(***************************************************************************)
(* Model of the contribution validation engine of ballet.                  *)
(*                                                                         *)
(*   SpecValidate : the validation orchestrator, ballet/validation/main.py *)
(*   SpecRange    : get_diff_endpoints_from_commit_range, ballet/util/git  *)
(***************************************************************************)
EXTENDS Integers, Sequences, FiniteSets, TLC

VARIABLES
    project,       \* build context: [on_pr, on_master_after_merge]
    call,          \* the current invocation: [entry, force, args]
    pc,            \* position in the invocation
    log,           \* lines given to logger.info, in order
    started,       \* stages entered (wrapper invoked), in order
    bodyRan,       \* stages whose body went past the skip decision, in order
    work,          \* <<stage, collaborator>>: constructed or called so far
    outcome,       \* outcome of each stage: none / ok / skipped / failed
    observed,      \* what the collaborator of each executed stage answered
    error,         \* exception that reached the caller ("None" if none)
    ret,           \* value the last stage call returned to its caller
    repo,          \* history store: [refs], the names rev_parse resolves
    commit_range,  \* the commit range string, a sequence of characters
    rpc,           \* position of the range resolution: idle / done
    endpoints,     \* what get_diff_endpoints_from_commit_range gave back
    rev_parsed,    \* tokens handed to repo.rev_parse, in order
    hrepo,         \* working repo: [ref, commit, master], the current head
    differ,        \* the differ object built last: [kind, pr_num, built_on]
    dresult,       \* how the last differ operation ended
    package,       \* the contrib package: its modules, in the order walked
    sys_modules,   \* sys.modules: the modules loaded in this process
    executed,      \* how often each module's code has been run
    source,        \* feature.source of each Feature object
    collected,     \* how the last collection ended
    ncollect,      \* collections made so far
    checks,        \* the registered checks: what the body of each does
    checks_run,    \* the checks run by the last validate, in order
    report,        \* what the last validate gave: exc or (result, failures)
    checked,       \* what the last do_check gave
    file_diffs,    \* the FileDiffs of the run, in diff order
    partitioned,   \* the partition made of them: [state, admissible, inadmissible]
    history,       \* a linear history: the tree of each commit, oldest first
    listing,       \* the last change listing: [state, a, b, diffs]
    gwt,           \* a GroupwiseTransformer: handle_unknown, groups_, transformers_
    fitted_on,     \* the frame the last successful fit was given
    gresult,       \* how the last fit or transform ended: [op, exc, X, out]
    push_info,     \* a PushInfo: its flags
    pushed         \* what did_git_push_succeed said of it: [state, ok]

vvars == <<project, call, pc, log, started, bodyRan, work, outcome,
           observed, error, ret>>

rvars == <<repo, commit_range, rpc, endpoints, rev_parsed>>

dvars == <<hrepo, differ, dresult>>

cvars == <<package, sys_modules, executed, source, collected, ncollect>>

kvars == <<checks, checks_run, report, checked>>

pvars == <<file_diffs, partitioned>>

lvars == <<history, listing>>

gvars == <<gwt, fitted_on, gresult>>

uvars == <<push_info, pushed>>

\* what the actions of one component leave alone
notV == <<rvars, dvars, cvars, kvars, pvars, lvars, gvars, uvars>>

notR == <<vvars, dvars, cvars, kvars, pvars, lvars, gvars, uvars>>

notD == <<vvars, rvars, cvars, kvars, pvars, lvars, gvars, uvars>>

notC == <<vvars, rvars, dvars, kvars, pvars, lvars, gvars, uvars>>

notK == <<vvars, rvars, dvars, cvars, pvars, lvars, gvars, uvars>>

notP == <<vvars, rvars, dvars, cvars, kvars, lvars, gvars, uvars>>

notL == <<vvars, rvars, dvars, cvars, kvars, pvars, gvars, uvars>>

notG == <<vvars, rvars, dvars, cvars, kvars, pvars, lvars, uvars>>

notU == <<vvars, rvars, dvars, cvars, kvars, pvars, lvars, gvars>>

vars == <<vvars, rvars, dvars, cvars, kvars, pvars, lvars, gvars, uvars>>

-----------------------------------------------------------------------------
(* Bounds *)

MaxRedundant == 2

MaxRangeLen == 6

MaxRefLen == 2

MaxModules == 2

MaxAttrs == 2

MaxCollections == 2

MaxChecks == 3

MaxDirs == 3

MaxDiffs == 2

MaxFiles == 3

MaxHistory == 3

MaxRows == 2

-----------------------------------------------------------------------------
(* Values *)

None == "None"

NoneVal == [none |-> TRUE, list |-> <<>>]

ListVal(l) == [none |-> FALSE, list |-> l]

FeatureSources == {"contrib.f1", "contrib.f2"}

RECURSIVE SeqsUpTo(_, _)
SeqsUpTo(S, n) ==
    IF n = 0 THEN {<<>>}
    ELSE LET shorter == SeqsUpTo(S, n - 1)
         IN  shorter \cup {Append(q, x) : q \in {p \in shorter : Len(p) = n - 1}, x \in S}

IsInjective(q) == \A i, j \in 1..Len(q) : q[i] = q[j] => i = j

RedundantLists == {q \in SeqsUpTo(FeatureSources, MaxRedundant) : IsInjective(q)}

\* what the external evaluators answer when a stage body consults them
CollabAnswers == [ok : BOOLEAN, redundant : RedundantLists]

Stages == <<"_check_project_structure", "_validate_feature_api",
            "_evaluate_feature_performance", "_prune_existing_features">>

StageSet == {Stages[i] : i \in 1..Len(Stages)}

PRUNER_MESSAGE == "Found Redundant Feature: "

LogLine(message, suffix) == [msg |-> message, suffix |-> suffix]

RECURSIVE PrunerLines(_)
PrunerLines(features) ==
    IF features = <<>> THEN <<>>
    ELSE <<LogLine(PRUNER_MESSAGE, Head(features))>> \o PrunerLines(Tail(features))

-----------------------------------------------------------------------------
(* Stage bodies.  A body result says which exception left the body (None   *)
(* if it returned), the value returned, whether the body went past its     *)
(* skip decision, the collaborators it used and the lines it logged.       *)

Raised(exc, ran, used, answer) ==
    [exc |-> exc, ret |-> NoneVal, ran |-> ran, work |-> used,
     lines |-> <<>>, answer |-> answer]

Returned(val, used, lines, answer) ==
    [exc |-> None, ret |-> val, ran |-> TRUE, work |-> used,
     lines |-> lines, answer |-> answer]

\* the answer a validator or accepter gave / the list a pruner gave
Judged(ans) == <<[ok |-> ans.ok, redundant |-> <<>>]>>

Pruned(ans) == <<[ok |-> TRUE, redundant |-> ans.redundant]>>

_check_project_structure_noforce(proj, force, ans) ==
    IF ~proj.on_pr
    THEN Raised("SkippedValidationTest", FALSE, {}, <<>>)
    ELSE IF ~ans.ok
         THEN Raised("InvalidProjectStructure", TRUE, {"ProjectStructureValidator"},
                     Judged(ans))
         ELSE Returned(NoneVal, {"ProjectStructureValidator"}, <<>>, Judged(ans))

_check_project_structure(proj, force, ans) ==
    IF ~force /\ ~proj.on_pr
    THEN Raised("SkippedValidationTest", FALSE, {}, <<>>)
    ELSE IF ~ans.ok
         THEN Raised("InvalidProjectStructure", TRUE, {"ProjectStructureValidator"},
                     Judged(ans))
         ELSE Returned(NoneVal, {"ProjectStructureValidator"}, <<>>, Judged(ans))

_validate_feature_api_wrongexc(proj, force, ans) ==
    IF ~force /\ ~proj.on_pr
    THEN Raised("SkippedValidationTest", FALSE, {}, <<>>)
    ELSE IF ~ans.ok
         THEN Raised("InvalidProjectStructure", TRUE, {"FeatureApiValidator"},
                     Judged(ans))
         ELSE Returned(NoneVal, {"FeatureApiValidator"}, <<>>, Judged(ans))

_validate_feature_api(proj, force, ans) ==
    IF ~force /\ ~proj.on_pr
    THEN Raised("SkippedValidationTest", FALSE, {}, <<>>)
    ELSE IF ~ans.ok
         THEN Raised("InvalidFeatureApi", TRUE, {"FeatureApiValidator"},
                     Judged(ans))
         ELSE Returned(NoneVal, {"FeatureApiValidator"}, <<>>, Judged(ans))

_evaluate_feature_performance_build_first(proj, force, ans) ==
    IF ~force /\ ~proj.on_pr
    THEN Raised("SkippedValidationTest", FALSE, {"project.build"}, <<>>)
    ELSE IF ~ans.ok
         THEN Raised("FeatureRejected", TRUE, {"project.build", "GFSSFAccepter"},
                     Judged(ans))
         ELSE Returned(NoneVal, {"project.build", "GFSSFAccepter"}, <<>>, Judged(ans))

_evaluate_feature_performance(proj, force, ans) ==
    IF ~force /\ ~proj.on_pr
    THEN Raised("SkippedValidationTest", FALSE, {}, <<>>)
    ELSE IF ~ans.ok
         THEN Raised("FeatureRejected", TRUE, {"project.build", "GFSSFAccepter"},
                     Judged(ans))
         ELSE Returned(NoneVal, {"project.build", "GFSSFAccepter"}, <<>>, Judged(ans))

_prune_existing_features_on_pr(proj, force, ans) ==
    IF ~force /\ ~proj.on_pr
    THEN Raised("SkippedValidationTest", FALSE, {}, <<>>)
    ELSE Returned(ListVal(ans.redundant), {"project.build", "GFSSFPruner"},
                  PrunerLines(ans.redundant), Pruned(ans))

_prune_existing_features_rejecting(proj, force, ans) ==
    IF ~force /\ ~proj.on_master_after_merge
    THEN Raised("SkippedValidationTest", FALSE, {}, <<>>)
    ELSE IF ans.redundant # <<>>
    THEN Raised("FeatureRejected", TRUE, {"project.build", "GFSSFPruner"}, Pruned(ans))
    ELSE Returned(ListVal(ans.redundant), {"project.build", "GFSSFPruner"},
                  PrunerLines(ans.redundant), Pruned(ans))

_prune_existing_features(proj, force, ans) ==
    IF ~force /\ ~proj.on_master_after_merge
    THEN Raised("SkippedValidationTest", FALSE, {}, <<>>)
    ELSE Returned(ListVal(ans.redundant), {"project.build", "GFSSFPruner"},
                  PrunerLines(ans.redundant), Pruned(ans))

StageMessage(s) ==
    CASE s = "_check_project_structure"      -> "checking project structure"
      [] s = "_validate_feature_api"         -> "validating feature API"
      [] s = "_evaluate_feature_performance" -> "evaluating feature performance"
      [] s = "_prune_existing_features"      -> "pruning existing features"

StageBody(s, proj, force, ans) ==
    CASE s = "_check_project_structure"      -> _check_project_structure(proj, force, ans)
      [] s = "_validate_feature_api"         -> _validate_feature_api(proj, force, ans)
      [] s = "_evaluate_feature_performance" -> _evaluate_feature_performance(proj, force, ans)
      [] s = "_prune_existing_features"      -> _prune_existing_features(proj, force, ans)

-----------------------------------------------------------------------------
(* The stage wrapper *)

\* stacklog: a start line, then the body, then one line whose suffix tells
\* how the body ended; the exception, if any, goes on to the caller.
stacklog(message, r) ==
    [r EXCEPT !.lines =
        <<LogLine("Ballet Validation: " \o message, "")>>
        \o r.lines
        \o <<LogLine("Ballet Validation: " \o message,
                     IF r.exc = None THEN "DONE"
                     ELSE IF r.exc = "SkippedValidationTest" THEN "SKIPPED"
                     ELSE "FAILURE")>>]

validation_stage_ignore_all(message, r) ==
    LET logged == stacklog(message, r)
    IN  IF logged.exc # None
        THEN [logged EXCEPT !.exc = None, !.ret = NoneVal]
        ELSE logged

validation_stage_no_ignore(message, r) == stacklog(message, r)

validation_stage_ignore_inside(message, r) ==
    stacklog(message,
             IF r.exc = "SkippedValidationTest"
             THEN [r EXCEPT !.exc = None, !.ret = NoneVal]
             ELSE r)

validation_stage(message, r) ==
    LET logged == stacklog(message, r)
    IN  IF logged.exc = "SkippedValidationTest"
        THEN [logged EXCEPT !.exc = None, !.ret = NoneVal]
        ELSE logged

StageOutcome(r) ==
    IF r.exc = None THEN "ok"
    ELSE IF r.exc = "SkippedValidationTest" THEN "skipped"
    ELSE "failed"

\* One call of stage s: the body is run inside the wrapper and the
\* bookkeeping of the run is updated.  after is the position to go to when
\* the call returns.
CallStage(s, force, ans, after) ==
    LET body == StageBody(s, project, force, ans)
        res  == validation_stage(StageMessage(s), body)
    IN  /\ log' = log \o res.lines
        /\ started' = Append(started, s)
        /\ bodyRan' = IF body.ran THEN Append(bodyRan, s) ELSE bodyRan
        /\ work' = work \cup {<<s, w>> : w \in body.work}
        /\ outcome' = [outcome EXCEPT ![s] = StageOutcome(body)]
        /\ observed' = [observed EXCEPT ![s] = body.answer]
        /\ error' = res.exc
        /\ ret' = res.ret
        /\ pc' = IF res.exc # None THEN "raised" ELSE after

-----------------------------------------------------------------------------
(* validate() *)

ValidateArgs == [check_project_structure     : BOOLEAN,
                 check_feature_api           : BOOLEAN,
                 evaluate_feature_acceptance : BOOLEAN,
                 evaluate_feature_pruning    : BOOLEAN]

NoArgs == [check_project_structure     |-> FALSE,
           check_feature_api           |-> FALSE,
           evaluate_feature_acceptance |-> FALSE,
           evaluate_feature_pruning    |-> FALSE]

\* the caller enters validate(project, ...)
validate(a) ==
    /\ pc = "idle"
    /\ call' = [entry |-> "validate", force |-> FALSE, args |-> a]
    /\ pc' = "L96"
    /\ UNCHANGED <<project, log, started, bodyRan, work, outcome, observed,
                   error, ret>>
    /\ UNCHANGED notV

ValidateStep(at, flag, s, after) ==
    /\ pc = at
    /\ call.entry = "validate"
    /\ IF flag
       THEN \E ans \in CollabAnswers : CallStage(s, FALSE, ans, after)
       ELSE /\ pc' = after
            /\ UNCHANGED <<log, started, bodyRan, work, outcome, observed,
                           error, ret>>
    /\ UNCHANGED <<project, call>>
    /\ UNCHANGED notV

validate_L96 ==
    ValidateStep("L96", call.args.check_project_structure,
                 "_check_project_structure", "L98")

validate_L98_wrongflag ==
    ValidateStep("L98", call.args.check_project_structure,
                 "_validate_feature_api", "L100")

validate_L98 ==
    ValidateStep("L98", call.args.check_feature_api,
                 "_validate_feature_api", "L100")

validate_L100 ==
    ValidateStep("L100", call.args.evaluate_feature_acceptance,
                 "_evaluate_feature_performance", "L102")

validate_L102 ==
    ValidateStep("L102", call.args.evaluate_feature_pruning,
                 "_prune_existing_features", "returned")

\* a caller invokes one stage function directly, with or without force
StageCall ==
    /\ pc = "idle"
    /\ \E s \in StageSet, force \in BOOLEAN, ans \in CollabAnswers :
          /\ call' = [entry |-> s, force |-> force, args |-> NoArgs]
          /\ CallStage(s, force, ans, "returned")
    /\ UNCHANGED project
    /\ UNCHANGED notV


-----------------------------------------------------------------------------
(* The history store.  Commits 1 and 2 are roots of unrelated histories,   *)
(* 3 and 4 are the two merges of 1 and 2 (a criss-cross), 5 is a child of  *)
(* 3 and 6 is a merge of 3, 4 and 5.                                       *)

Commits == 1..6

NoCommit == 0

\* commit.parents, in order
ParentList(c) ==
    CASE c = 1 -> <<>>
      [] c = 2 -> <<>>
      [] c = 3 -> <<1, 2>>
      [] c = 4 -> <<2, 1>>
      [] c = 5 -> <<3>>
      [] c = 6 -> <<3, 4, 5>>

Parents(c) == {ParentList(c)[i] : i \in 1..Len(ParentList(c))}

RECURSIVE Ancestors(_)
Ancestors(c) == {c} \cup UNION {Ancestors(p) : p \in Parents(c)}

RECURSIVE SortedSeq(_)
SortedSeq(S) ==
    IF S = {} THEN <<>>
    ELSE LET m == CHOOSE x \in S : \A y \in S : x <= y
         IN  <<m>> \o SortedSeq(S \ {m})

\* repo.merge_base(a, b): the common ancestors of a and b that are not an
\* ancestor of another common ancestor; none, one or several
merge_base(a, b) ==
    LET common == Ancestors(a) \cap Ancestors(b)
        best   == {c \in common :
                      \A d \in common : c \in Ancestors(d) => d = c}
    IN  SortedSeq(best)

\* repo.rev_parse(name): the commit the name resolves to, NoCommit when the
\* store does not know the name (rev_parse raises then)
rev_parse(r, name) ==
    IF name \in DOMAIN r.refs THEN r.refs[name] ELSE NoCommit

-----------------------------------------------------------------------------
(* Commit range strings *)

\* characters of the model: two members of the revision class, the dot and
\* a blank, which is in neither
Chars == {"a", "_", ".", " "}

\* REV_REGEX = [a-zA-Z0-9_/^@{}-]+ : the members of the class among Chars
IsRevChar(c) == c \in {"a", "_"}

SubStr(s, i, j) == [k \in 1..(j - i + 1) |-> s[i + k - 1]]

IsRev(s, i, j) == i <= j /\ \A k \in i..j : IsRevChar(s[k])

\* the ends j of the non-empty runs s[i..j] of revision characters
RevEnds(s, i) == {j \in i..Len(s) : IsRev(s, i, j)}

\* all the ways COMMIT_RANGE_REGEX matches inside s: a = s[i..ja], two dots,
\* an optional third dot (td = 1), b = s[ja+3+td .. jb]
RangeMatches(s) ==
    UNION {UNION {UNION {
        {[i |-> i, ja |-> ja, td |-> td, jb |-> jb] :
            jb \in RevEnds(s, ja + 3 + td)} :
        td \in {t \in {0, 1} : t = 1 => s[ja + 3] = "."}} :
        ja \in {j \in RevEnds(s, i) :
                  j + 3 <= Len(s) /\ s[j + 1] = "." /\ s[j + 2] = "."}} :
        i \in 1..Len(s)}

\* the order in which re.search tries them: leftmost start, then the
\* longest a, then the third dot taken, then the longest b
TriedBefore(m, n) ==
    \/ m.i < n.i
    \/ m.i = n.i /\ m.ja > n.ja
    \/ m.i = n.i /\ m.ja = n.ja /\ m.td > n.td
    \/ m.i = n.i /\ m.ja = n.ja /\ m.td = n.td /\ m.jb >= n.jb

\* funcy.re_find(COMMIT_RANGE_REGEX, s): the named groups of the first
\* match of a search in s, or no result
re_find(s) ==
    LET ms == RangeMatches(s)
    IN  IF ms = {} THEN [found |-> FALSE, a |-> <<>>, thirddot |-> "", b |-> <<>>]
        ELSE LET m == CHOOSE x \in ms : \A y \in ms : TriedBefore(x, y)
             IN  [found    |-> TRUE,
                  a        |-> SubStr(s, m.i, m.ja),
                  thirddot |-> IF m.td = 1 THEN "." ELSE "",
                  b        |-> SubStr(s, m.ja + 3 + m.td, m.jb)]

\* one_or_raise(seq): the single element of seq, an error otherwise
one_or_raise(q) ==
    IF Len(q) = 1 THEN [exc |-> None, val |-> q[1]]
    ELSE [exc |-> "AmbiguousMergeBase", val |-> NoCommit]

Endpoints(a, b, parsed) ==
    [exc |-> None, msg |-> "", a |-> a, b |-> b, parsed |-> parsed]

RangeError(exc, msg, parsed) ==
    [exc |-> exc, msg |-> msg, a |-> NoCommit, b |-> NoCommit, parsed |-> parsed]

\* lines 150-151: with a third dot the base is the one merge-base of a
\* and b, without it the base is a itself
ResolveBase_always_merge(thirddot, a, b) == one_or_raise(merge_base(a, b))

ResolveBase_never_merge(thirddot, a, b) == [exc |-> None, val |-> a]

ResolveBase_first_or_a(thirddot, a, b) ==
    IF thirddot # ""
    THEN LET bases == merge_base(a, b)
         IN  [exc |-> None, val |-> IF bases = <<>> THEN a ELSE bases[1]]
    ELSE [exc |-> None, val |-> a]

ResolveBase(thirddot, a, b) ==
    IF thirddot # ""
    THEN one_or_raise(merge_base(a, b))
    ELSE [exc |-> None, val |-> a]

\* lines 143-152: the range is not empty
ResolveRange(r, range) ==
    LET result == re_find(range)
    IN  IF ~result.found
        THEN RangeError("ValueError",
                        "Expected diff str of the form 'a..b' or 'a...b'", <<>>)
        ELSE
        LET a == rev_parse(r, result.a)
            b == rev_parse(r, result.b)
        IN  IF a = NoCommit
            THEN RangeError("BadName", "", <<result.a>>)
            ELSE IF b = NoCommit
            THEN RangeError("BadName", "", <<result.a, result.b>>)
            ELSE LET base == ResolveBase(result.thirddot, a, b)
                 IN  IF base.exc # None
                     THEN RangeError(base.exc, "", <<result.a, result.b>>)
                     ELSE Endpoints(base.val, b, <<result.a, result.b>>)

get_diff_endpoints_from_commit_range_unchecked(r, range) ==
    ResolveRange(r, range)

get_diff_endpoints_from_commit_range(r, range) ==
    IF range = <<>>
    THEN RangeError("ValueError", "commit_range cannot be empty", <<>>)
    ELSE ResolveRange(r, range)

\* the names the store resolves: the one-character names point anywhere,
\* the two-character name "a_" points to commit 5
RefTables ==
    {[n \in {<<"a">>, <<"_">>, <<"a", "_">>} |->
         IF n = <<"a">> THEN x ELSE IF n = <<"_">> THEN y ELSE 5] :
     x \in Commits, y \in Commits}

RangeStrings == SeqsUpTo(Chars, MaxRangeLen)

NoEndpoints == RangeError("", "", <<>>)

-----------------------------------------------------------------------------
(* Differs.  The path of a branch reference is a sequence of pieces: the   *)
(* prefix "refs/heads/" and then the pieces of the branch name.            *)

Digits == {"1"}

NamePieces == {"pull/", "x"} \cup Digits

Detached == <<>>

MasterPath == <<"refs/heads/", "master">>

BranchPaths ==
    {<<"refs/heads/">> \o n : n \in SeqsUpTo(NamePieces, MaxRefLen) \ {<<>>}}
    \cup {MasterPath}

\* repo.head: a reference to a branch, or detached
HeadRefs == BranchPaths \cup {Detached}

\* where 'master' points, NoCommit when there is no such branch
MasterCommits == {NoCommit, 3}

WorkingRepos == [ref : HeadRefs, commit : Commits, master : MasterCommits]

PrNums == {1, 11}

\* PR_REF_PATH_REGEX = refs/heads/pull/(\d+), searched in the path: the
\* places where the literal is followed by at least one digit
PrRefMatches(path) ==
    {i \in 1..Len(path) :
        /\ i + 2 <= Len(path)
        /\ path[i] = "refs/heads/"
        /\ path[i + 1] = "pull/"
        /\ path[i + 2] \in Digits}

re_test_PR_REF_PATH_REGEX(path) == PrRefMatches(path) # {}

\* the outcome of a differ operation, with the parts of the repo it read
DifferResult(op, exc, a, b, ref, tip, master) ==
    [op |-> op, exc |-> exc, a |-> a, b |-> b,
     compared |-> IF exc = None /\ op = "diff" THEN <<a, b>> ELSE <<>>,
     ref |-> ref, tip |-> tip, master |-> master, ret |-> <<>>]

NoDiffer == [kind |-> "none", pr_num |-> 0, built_on |-> NoCommit]

\* LocalMergeBuildDiffer._check_environment: the condition of the assert
LocalMergeBuildDiffer_check_environment_atleast(r) ==
    Len(ParentList(r.commit)) >= 2

LocalMergeBuildDiffer_check_environment(r) ==
    Len(ParentList(r.commit)) = 2

\* LocalMergeBuildDiffer._get_diff_endpoints
LocalMergeBuildDiffer_get_diff_endpoints_swapped(r) ==
    LET parents == ParentList(r.commit)
    IN  IF Len(parents) < 2
        THEN DifferResult("diff", "IndexError", NoCommit, NoCommit,
                          Detached, r.commit, NoCommit)
        ELSE DifferResult("diff", None, parents[2], parents[1],
                          Detached, r.commit, NoCommit)

LocalMergeBuildDiffer_get_diff_endpoints(r) ==
    LET parents == ParentList(r.commit)
    IN  IF Len(parents) < 2
        THEN DifferResult("diff", "IndexError", NoCommit, NoCommit,
                          Detached, r.commit, NoCommit)
        ELSE DifferResult("diff", None, parents[1], parents[2],
                          Detached, r.commit, NoCommit)

\* LocalPullRequestBuildDiffer._check_environment: repo.head.ref raises
\* TypeError on a detached head, then the assert
LocalPullRequestBuildDiffer_check_environment_nodigits(r) ==
    IF r.ref = Detached THEN "TypeError"
    ELSE IF ~(Len(r.ref) >= 2 /\ r.ref[1] = "refs/heads/" /\ r.ref[2] = "pull/")
    THEN "AssertionError"
    ELSE None

LocalPullRequestBuildDiffer_check_environment(r) ==
    IF r.ref = Detached THEN "TypeError"
    ELSE IF ~re_test_PR_REF_PATH_REGEX(r.ref) THEN "AssertionError"
    ELSE None

\* LocalPullRequestBuildDiffer._get_diff_endpoints: 'master', then the name
\* of the branch the head refers to, which resolves to the tip
LocalPullRequestBuildDiffer_get_diff_endpoints(r) ==
    IF r.master = NoCommit
    THEN DifferResult("diff", "BadName", NoCommit, NoCommit,
                      Detached, NoCommit, r.master)
    ELSE IF r.ref = Detached
    THEN DifferResult("diff", "TypeError", NoCommit, NoCommit,
                      r.ref, NoCommit, r.master)
    ELSE DifferResult("diff", None, r.master, r.commit,
                      r.ref, r.commit, r.master)

\* re_find(PR_REF_PATH_REGEX, path): the group (\d+) of the leftmost match,
\* the longest run of digits after the literal; <<>> (None) without a match
RECURSIVE DigitRun(_, _)
DigitRun(path, i) ==
    IF i <= Len(path) /\ path[i] \in Digits
    THEN <<path[i]>> \o DigitRun(path, i + 1)
    ELSE <<>>

re_find_PR_REF_PATH_REGEX(path) ==
    IF PrRefMatches(path) = {} THEN <<>>
    ELSE LET i == CHOOSE m \in PrRefMatches(path) :
                      \A n \in PrRefMatches(path) : m <= n
         IN  DigitRun(path, i + 2)

DigitValue(d) == CASE d = "1" -> 1

\* int(s) of a non-empty string of decimal digits
RECURSIVE int(_)
int(digits) ==
    IF Len(digits) = 1 THEN DigitValue(digits[1])
    ELSE 10 * int(SubSeq(digits, 1, Len(digits) - 1))
         + DigitValue(digits[Len(digits)])

\* the body of get_pr_num: what it raises, and what it returns (<<n>>, or
\* <<>> for None); repo.head.ref raises TypeError on a detached head and
\* int(None) raises TypeError
get_pr_num_body(r) ==
    IF r.ref = Detached THEN [exc |-> "TypeError", ret |-> <<>>]
    ELSE LET pr_num == re_find_PR_REF_PATH_REGEX(r.ref)
         IN  IF pr_num = <<>> THEN [exc |-> "TypeError", ret |-> <<>>]
             ELSE [exc |-> None, ret |-> <<int(pr_num)>>]

get_pr_num_not_silent(r) == get_pr_num_body(r)

\* @silent: an Exception of the body becomes the return value None
get_pr_num(r) ==
    LET res == get_pr_num_body(r)
    IN  IF res.exc # None THEN [exc |-> None, ret |-> <<>>] ELSE res

\* LocalMergeBuildDiffer(repo)
NewLocalMergeBuildDiffer ==
    /\ dresult.op # "off"
    /\ IF LocalMergeBuildDiffer_check_environment(hrepo)
       THEN /\ differ' = [kind |-> "LocalMergeBuildDiffer", pr_num |-> 0,
                          built_on |-> hrepo.commit]
            /\ dresult' = DifferResult("LocalMergeBuildDiffer", None, NoCommit,
                                       NoCommit, Detached, hrepo.commit, NoCommit)
       ELSE /\ differ' = NoDiffer
            /\ dresult' = DifferResult("LocalMergeBuildDiffer", "AssertionError",
                                       NoCommit, NoCommit, Detached,
                                       hrepo.commit, NoCommit)
    /\ UNCHANGED hrepo
    /\ UNCHANGED notD

\* LocalPullRequestBuildDiffer(pr_num, repo)
NewLocalPullRequestBuildDiffer ==
    /\ dresult.op # "off"
    /\ \E n \in PrNums :
          LET exc == LocalPullRequestBuildDiffer_check_environment(hrepo)
          IN  /\ differ' = IF exc = None
                           THEN [kind |-> "LocalPullRequestBuildDiffer",
                                 pr_num |-> n, built_on |-> NoCommit]
                           ELSE NoDiffer
              /\ dresult' = DifferResult("LocalPullRequestBuildDiffer", exc,
                                         NoCommit, NoCommit, hrepo.ref,
                                         NoCommit, NoCommit)
    /\ UNCHANGED hrepo
    /\ UNCHANGED notD

\* Differ.diff() on the differ built last
Differ_diff ==
    /\ differ.kind # "none"
    /\ dresult' = IF differ.kind = "LocalMergeBuildDiffer"
                  THEN LocalMergeBuildDiffer_get_diff_endpoints(hrepo)
                  ELSE LocalPullRequestBuildDiffer_get_diff_endpoints(hrepo)
    /\ UNCHANGED <<hrepo, differ>>
    /\ UNCHANGED notD

\* get_pr_num(repo)
GetPrNum ==
    /\ dresult.op # "off"
    /\ LET res == get_pr_num(hrepo)
       IN  dresult' = [DifferResult("get_pr_num", res.exc, NoCommit, NoCommit,
                                    hrepo.ref, NoCommit, NoCommit)
                          EXCEPT !.ret = res.ret]
    /\ UNCHANGED <<hrepo, differ>>
    /\ UNCHANGED notD

\* the repository moves on: the head is pointed at another branch or
\* detached, at the current commit (switch_to_new_branch, checkout)
SwitchHead ==
    /\ dresult.op # "off"
    /\ \E ref \in HeadRefs \ {hrepo.ref} :
          hrepo' = [hrepo EXCEPT !.ref = ref]
    /\ UNCHANGED <<differ, dresult>>
    /\ UNCHANGED notD

\* the repository moves on: the tip becomes another commit (commit, merge,
\* reset)
MoveTip ==
    /\ dresult.op # "off"
    /\ \E c \in Commits \ {hrepo.commit} :
          hrepo' = [hrepo EXCEPT !.commit = c]
    /\ UNCHANGED <<differ, dresult>>
    /\ UNCHANGED notD

-----------------------------------------------------------------------------
(* Feature collector.  A module is how its load ends and, when it loads,   *)
(* the values of its attributes in dir() order: a Feature object or        *)
(* something else.                                                         *)

Features == {1, 2}

NotAFeature == 0

AttrLists == SeqsUpTo(Features \cup {NotAFeature}, MaxAttrs)

\* load_module: the code runs; it raises ImportError; it does not compile
Modules ==
    [load : {"ok"}, attrs : AttrLists]
    \cup [load : {"ImportError", "SyntaxError"}, attrs : {<<>>}]

Packages == SeqsUpTo(Modules, MaxModules)

isinstance_Feature(obj) == obj \in Features

NoSource == 0

\* _get_contrib_feature_from_module: ret is <<>> for None
_get_contrib_feature_from_module_first(name, attrs, src) ==
    LET candidates == SelectSeq(attrs, isinstance_Feature)
    IN  IF Len(candidates) >= 1
        THEN [ret |-> <<candidates[1]>>,
              source |-> [src EXCEPT ![candidates[1]] = name]]
        ELSE [ret |-> <<>>, source |-> src]

_get_contrib_feature_from_module(name, attrs, src) ==
    LET candidates == SelectSeq(attrs, isinstance_Feature)
    IN  IF Len(candidates) = 1
        THEN [ret |-> <<candidates[1]>>,
              source |-> [src EXCEPT ![candidates[1]] = name]]
        ELSE [ret |-> <<>>, source |-> src]

\* what one module contributed: ret as returned, tag = feature.source then
Yield(name, r) ==
    [mod |-> name, ret |-> r.ret,
     tag |-> IF r.ret = <<>> THEN NoSource ELSE r.source[r.ret[1]]]

\* _get_contrib_features_from_package from the i-th module on; st is the
\* process state and what has been yielded and logged so far
RECURSIVE _get_contrib_features_from_package(_, _, _)
_get_contrib_features_from_package(pkg, i, st) ==
    IF i > Len(pkg) THEN st
    ELSE CASE pkg[i].load = "SyntaxError" ->
                [st EXCEPT !.exc = "SyntaxError"]
           [] pkg[i].load = "ImportError" ->
                _get_contrib_features_from_package(pkg, i + 1,
                    [st EXCEPT !.executed[i] = @ + 1,
                               !.logged = Append(@, i)])
           [] pkg[i].load = "ok" ->
                LET r == _get_contrib_feature_from_module(i, pkg[i].attrs, st.source)
                IN  _get_contrib_features_from_package(pkg, i + 1,
                        [st EXCEPT !.executed[i] = @ + 1,
                                   !.sys_modules = @ \cup {i},
                                   !.source = r.source,
                                   !.yielded = Append(@, Yield(i, r))])

IsNotNone(y) == y.ret # <<>>

\* dfilter(complement(isnone)) over the collected list
dfilter_isnone(op, st) ==
    [op |-> op, exc |-> st.exc, yielded |-> st.yielded, logged |-> st.logged,
     features |-> IF st.exc = None THEN SelectSeq(st.yielded, IsNotNone) ELSE <<>>]

NoCollection ==
    [op |-> "none", exc |-> None, yielded |-> <<>>, logged |-> <<>>, features |-> <<>>]

\* _get_contrib_features(module) on a package
CollectPackage ==
    /\ ncollect < MaxCollections
    /\ LET st == _get_contrib_features_from_package(package, 1,
                    [exc |-> None, yielded |-> <<>>, logged |-> <<>>,
                     executed |-> executed, sys_modules |-> sys_modules,
                     source |-> source])
       IN  /\ executed' = st.executed
           /\ sys_modules' = st.sys_modules
           /\ source' = st.source
           /\ collected' = dfilter_isnone("package", st)
    /\ ncollect' = ncollect + 1
    /\ UNCHANGED package
    /\ UNCHANGED notC

\* _get_contrib_features(module) on a loaded module that is not a package
CollectModule ==
    /\ ncollect < MaxCollections
    /\ \E i \in sys_modules :
          LET r == _get_contrib_feature_from_module(i, package[i].attrs, source)
          IN  /\ source' = r.source
              /\ collected' = dfilter_isnone("module",
                     [exc |-> None, yielded |-> <<Yield(i, r)>>, logged |-> <<>>])
    /\ ncollect' = ncollect + 1
    /\ UNCHANGED <<package, sys_modules, executed>>
    /\ UNCHANGED notC

\* _get_contrib_features(module) on something that is not a module
CollectNotAModule ==
    /\ ncollect < MaxCollections
    /\ collected' = [NoCollection EXCEPT !.op = "other", !.exc = "ValueError"]
    /\ ncollect' = ncollect + 1
    /\ UNCHANGED <<package, sys_modules, executed, source>>
    /\ UNCHANGED notC

-----------------------------------------------------------------------------
(* Check framework.  A check is what its body does with the candidate: it  *)
(* returns something true or false, raises an exception derived from       *)
(* Exception, or raises one that is not (SystemExit, KeyboardInterrupt).   *)

CheckBodies == {"returns_true", "returns_false", "raises_Exception", "raises_SystemExit"}

CheckLists == SeqsUpTo(CheckBodies, MaxChecks)

\* the exception a body raises, None when it returns
BodyRaises(body) ==
    CASE body = "raises_Exception" -> "Exception"
      [] body = "raises_SystemExit" -> "SystemExit"
      [] OTHER -> None

\* BaseCheck.do_check: ignore(Exception, default=False) around
\* post_processing(constantly(True)) around check
do_check_no_ignore(body) ==
    IF BodyRaises(body) # None
    THEN [exc |-> BodyRaises(body), ret |-> FALSE]
    ELSE [exc |-> None, ret |-> TRUE]

do_check_no_post_processing(body) ==
    IF BodyRaises(body) = "Exception" THEN [exc |-> None, ret |-> FALSE]
    ELSE IF BodyRaises(body) # None THEN [exc |-> BodyRaises(body), ret |-> FALSE]
    ELSE [exc |-> None, ret |-> body = "returns_true"]

do_check(body) ==
    IF BodyRaises(body) = "Exception" THEN [exc |-> None, ret |-> FALSE]
    ELSE IF BodyRaises(body) # None THEN [exc |-> BodyRaises(body), ret |-> FALSE]
    ELSE [exc |-> None, ret |-> TRUE]

\* the loop of validate over the registered checks from the i-th on: each is
\* run in turn and the name of one that reports false is yielded
RECURSIVE feature_api_validate(_, _, _)
feature_api_validate(chks, i, st) ==
    IF i > Len(chks) THEN st
    ELSE LET success == do_check(chks[i])
         IN  IF success.exc # None
             THEN [st EXCEPT !.exc = success.exc, !.ran = Append(@, i)]
             ELSE feature_api_validate(chks, i + 1,
                      [st EXCEPT !.ran = Append(@, i),
                                 !.yielded = IF success.ret THEN @ ELSE Append(@, i)])

\* whether_failures: (not failures, failures) of what the call yields
whether_failures_any(gen) ==
    IF gen.exc # None
    THEN [exc |-> gen.exc, result |-> FALSE, failures |-> <<>>]
    ELSE [exc |-> None, result |-> Len(gen.yielded) <= 1, failures |-> gen.yielded]

whether_failures(gen) ==
    IF gen.exc # None
    THEN [exc |-> gen.exc, result |-> FALSE, failures |-> <<>>]
    ELSE [exc |-> None, result |-> gen.yielded = <<>>, failures |-> gen.yielded]

NoReport == [exc |-> "none", result |-> FALSE, failures |-> <<>>]

NoCheck == [check |-> 0, exc |-> None, ret |-> FALSE]

\* validate(feature, X, y)
ValidateFeature ==
    /\ report.exc # "off"
    /\ LET gen == feature_api_validate(checks, 1,
                       [exc |-> None, ran |-> <<>>, yielded |-> <<>>])
       IN  /\ checks_run' = gen.ran
           /\ report' = whether_failures(gen)
    /\ UNCHANGED <<checks, checked>>
    /\ UNCHANGED notK

\* check.do_check(obj) of one registered check
DoCheck ==
    /\ report.exc # "off"
    /\ \E i \in 1..Len(checks) :
          checked' = [check |-> i, exc |-> do_check(checks[i]).exc,
                      ret |-> do_check(checks[i]).ret]
    /\ UNCHANGED <<checks, checks_run, report>>
    /\ UNCHANGED notK

\* a new check is defined: one more subclass for the next validate
RegisterCheck ==
    /\ report = NoReport
    /\ Len(checks) < MaxChecks
    /\ \E body \in CheckBodies : checks' = Append(checks, body)
    /\ UNCHANGED <<checks_run, report, checked>>
    /\ UNCHANGED notK

-----------------------------------------------------------------------------
(* Change classifier.  A FileDiff is the path of a changed file: the       *)
(* directories down to it and its name.                                    *)

DirNames == {"src", "contrib"}

FileNames == {"invalid.py", "foo.jpg"}

contrib_root == <<"src", "contrib">>

FileDiffs == [dirs : SeqsUpTo(DirNames, MaxDirs), name : FileNames]

DiffLists == SeqsUpTo(FileDiffs, MaxDiffs)

\* the path lies under the root
IsUnder(dirs, root) ==
    /\ Len(dirs) >= Len(root)
    /\ \A k \in 1..Len(root) : dirs[k] = root[k]

HasSourceExtension(name) == name = "invalid.py"

\* the nesting-depth predicate: exactly one directory below the root
HasRightDepth(dirs, root) == Len(dirs) = Len(root) + 1

is_admissible(d) ==
    /\ IsUnder(d.dirs, contrib_root)
    /\ HasSourceExtension(d.name)
    /\ HasRightDepth(d.dirs, contrib_root)

IsOutsideRoot(d) == ~IsUnder(d.dirs, contrib_root)

is_inadmissible(d) == ~is_admissible(d)

\* partition(diffs, contrib_root)
partition_outside_only(diffs) ==
    [state |-> "done",
     admissible |-> SelectSeq(diffs, is_admissible),
     inadmissible |-> SelectSeq(diffs, IsOutsideRoot)]

partition(diffs) ==
    [state |-> "done",
     admissible |-> SelectSeq(diffs, is_admissible),
     inadmissible |-> SelectSeq(diffs, is_inadmissible)]

NoPartition == [state |-> "new", admissible |-> <<>>, inadmissible |-> <<>>]

Partition ==
    /\ partitioned.state = "new"
    /\ partitioned' = partition(file_diffs)
    /\ UNCHANGED file_diffs
    /\ UNCHANGED notP

-----------------------------------------------------------------------------
(* Change listing.  The tree of a commit gives each file its content: 0    *)
(* when the file is absent, else a version of that file.  Files of         *)
(* different paths have unrelated content, so no change is a rename.       *)

Files == 1..MaxFiles

Absent == 0

Versions == {1, 2}

EmptyTree == [f \in Files |-> Absent]

\* the trees a commit can give after a parent tree: one file is added,
\* modified or removed
ChildTrees(parent) ==
    {[parent EXCEPT ![f] = v] : f \in Files, v \in {Absent} \cup Versions}
    \ {parent}

RECURSIVE LinearHistories(_)
LinearHistories(n) ==
    IF n = 1 THEN {<<t>> : t \in ChildTrees(EmptyTree)}
    ELSE LET shorter == LinearHistories(n - 1)
         IN  shorter \cup
             UNION {{Append(h, t) : t \in ChildTrees(h[n - 1])} :
                       h \in {g \in shorter : Len(g) = n - 1}}

Histories == LinearHistories(MaxHistory)

ChangeOf(ta, tb, f) ==
    IF ta[f] = Absent THEN "A"
    ELSE IF tb[f] = Absent THEN "D"
    ELSE "M"

\* a.diff(b) of two commits: one entry per path whose content differs, in
\* path order
RECURSIVE commit_diff(_, _, _)
commit_diff(ta, tb, f) ==
    IF f > MaxFiles THEN <<>>
    ELSE (IF ta[f] = tb[f] THEN <<>>
          ELSE <<[change_type |-> ChangeOf(ta, tb, f), path |-> f]>>)
         \o commit_diff(ta, tb, f + 1)

\* Differ.diff of a CustomDiffer over endpoints (a, b)
CustomDiffer_diff_reversed(h, a, b) == commit_diff(h[b], h[a], 1)

CustomDiffer_diff(h, a, b) == commit_diff(h[a], h[b], 1)

\* CustomDiffer(endpoints).diff()
ListChanges ==
    /\ listing.state # "off"
    /\ \E a, b \in 1..Len(history) :
          listing' = [state |-> "done", a |-> a, b |-> b,
                      diffs |-> CustomDiffer_diff(history, a, b)]
    /\ UNCHANGED history
    /\ UNCHANGED notL

-----------------------------------------------------------------------------
(* GroupwiseTransformer.  A frame is a sequence of rows, each with the key *)
(* it is grouped by and a value.  The transformer cloned for each group    *)
(* learns the sum of the group's values in fit and adds ten times that sum *)
(* to a value in transform.                                                 *)

GroupKeys == {"g1", "g2"}

RowValues == {1, 2}

Frames == SeqsUpTo([group : GroupKeys, value : RowValues], MaxRows)

HandleUnknown == {"error", "ignore", "other"}

\* grouper.groups.keys()
GroupsOf(X) == {X[i].group : i \in 1..Len(X)}

\* transformer.fit(x_group) of the cloned transformer
RECURSIVE transformer_fit(_, _)
transformer_fit(X, g) ==
    IF X = <<>> THEN 0
    ELSE (IF Head(X).group = g THEN Head(X).value ELSE 0) + transformer_fit(Tail(X), g)

\* transformer.transform(x_group) of a fitted clone, value by value
transformer_transform(learned, v) == 10 * learned + v

NewGroupwiseTransformer(handle_unknown) ==
    [handle_unknown |-> handle_unknown, fitted |-> FALSE, groups_ |-> {},
     transformers_ |-> <<>>]

GroupwiseResult(op, exc, X, out) == [op |-> op, exc |-> exc, X |-> X, out |-> out]

\* GroupwiseTransformer.fit
GroupwiseTransformer_fit(self, X) ==
    IF self.handle_unknown \notin {"error", "ignore"}
    THEN [self |-> self, exc |-> "ValueError"]
    ELSE [self |-> [self EXCEPT !.fitted = TRUE,
                                !.groups_ = GroupsOf(X),
                                !.transformers_ = [g \in GroupsOf(X) |-> transformer_fit(X, g)]],
          exc |-> None]

\* GroupwiseTransformer.transform: _transform applied to each group and the
\* results put back at the rows of the group
GroupwiseTransformer_transform_lenient(self, X) ==
    IF ~self.fitted THEN [exc |-> "NotFittedError", out |-> <<>>]
    ELSE [exc |-> None,
          out |-> [i \in 1..Len(X) |->
                     IF X[i].group \in DOMAIN self.transformers_
                     THEN transformer_transform(self.transformers_[X[i].group], X[i].value)
                     ELSE X[i].value]]

GroupwiseTransformer_transform(self, X) ==
    IF ~self.fitted THEN [exc |-> "NotFittedError", out |-> <<>>]
    ELSE IF GroupsOf(X) \ DOMAIN self.transformers_ # {}
            /\ self.handle_unknown = "error"
    THEN [exc |-> "Error", out |-> <<>>]
    ELSE IF GroupsOf(X) \ DOMAIN self.transformers_ # {}
            /\ self.handle_unknown # "ignore"
    THEN [exc |-> "RuntimeError", out |-> <<>>]
    ELSE [exc |-> None,
          out |-> [i \in 1..Len(X) |->
                     IF X[i].group \in DOMAIN self.transformers_
                     THEN transformer_transform(self.transformers_[X[i].group], X[i].value)
                     ELSE X[i].value]]

\* transformer.fit(X)
GroupwiseFit ==
    /\ gresult.op # "off"
    /\ \E X \in Frames :
          LET r == GroupwiseTransformer_fit(gwt, X)
          IN  /\ gwt' = r.self
              /\ fitted_on' = IF r.exc = None THEN X ELSE fitted_on
              /\ gresult' = GroupwiseResult("fit", r.exc, X, <<>>)
    /\ UNCHANGED notG

\* transformer.transform(X)
GroupwiseTransform ==
    /\ gresult.op # "off"
    /\ \E X \in Frames :
          LET r == GroupwiseTransformer_transform(gwt, X)
          IN  gresult' = GroupwiseResult("transform", r.exc, X, r.out)
    /\ UNCHANGED <<gwt, fitted_on>>
    /\ UNCHANGED notG

-----------------------------------------------------------------------------
(* The outcome of a push.  The flags of git.PushInfo are the bits          *)
(* NEW_TAG = 1, NEW_HEAD = 2, NO_MATCH = 4, REJECTED = 8,                  *)
(* REMOTE_REJECTED = 16, REMOTE_FAILURE = 32, DELETED = 64,                *)
(* FORCED_UPDATE = 128, FAST_FORWARD = 256, UP_TO_DATE = 512, ERROR = 1024 *)

FlagBits == 11

PushFlags == 0..(2^FlagBits - 1)

REJECTED == 8

REMOTE_REJECTED == 16

REMOTE_FAILURE == 32

ERROR == 1024

\* x & y and x | y on non-negative integers
RECURSIVE BitAnd(_, _)
BitAnd(x, y) ==
    IF x = 0 \/ y = 0 THEN 0
    ELSE (x % 2) * (y % 2) + 2 * BitAnd(x \div 2, y \div 2)

RECURSIVE BitOr(_, _)
BitOr(x, y) ==
    IF x = 0 THEN y
    ELSE IF y = 0 THEN x
    ELSE (IF x % 2 = 1 \/ y % 2 = 1 THEN 1 ELSE 0) + 2 * BitOr(x \div 2, y \div 2)

GIT_PUSH_FAILURE ==
    BitOr(BitOr(BitOr(REJECTED, REMOTE_REJECTED), REMOTE_FAILURE), ERROR)

did_git_push_succeed_rejected_only(info) == BitAnd(info.flags, REJECTED) = 0

did_git_push_succeed(info) == BitAnd(info.flags, GIT_PUSH_FAILURE) = 0

DidGitPushSucceed ==
    /\ pushed.state = "new"
    /\ pushed' = [state |-> "done", ok |-> did_git_push_succeed(push_info)]
    /\ UNCHANGED push_info
    /\ UNCHANGED notU

-----------------------------------------------------------------------------
(* Specifications.  Each one runs one component; the variables of the      *)
(* other components stay at their idle values.                             *)

IdleValidate ==
    /\ project = [on_pr |-> FALSE, on_master_after_merge |-> FALSE]
    /\ call = [entry |-> "none", force |-> FALSE, args |-> NoArgs]
    /\ pc = "off"
    /\ log = <<>>
    /\ started = <<>>
    /\ bodyRan = <<>>
    /\ work = {}
    /\ outcome = [s \in StageSet |-> "none"]
    /\ observed = [s \in StageSet |-> <<>>]
    /\ error = None
    /\ ret = NoneVal

IdleRange ==
    /\ repo = [refs |-> <<>>]
    /\ commit_range = <<>>
    /\ rpc = "off"
    /\ endpoints = NoEndpoints
    /\ rev_parsed = <<>>

IdleDiffer ==
    /\ hrepo = [ref |-> Detached, commit |-> 1, master |-> NoCommit]
    /\ differ = NoDiffer
    /\ dresult = DifferResult("off", None, NoCommit, NoCommit,
                              Detached, NoCommit, NoCommit)

IdleCollect ==
    /\ package = <<>>
    /\ sys_modules = {}
    /\ executed = <<>>
    /\ source = [f \in Features |-> NoSource]
    /\ collected = NoCollection
    /\ ncollect = MaxCollections

IdleCheck ==
    /\ checks = <<>>
    /\ checks_run = <<>>
    /\ report = [NoReport EXCEPT !.exc = "off"]
    /\ checked = NoCheck

IdlePartition ==
    /\ file_diffs = <<>>
    /\ partitioned = [NoPartition EXCEPT !.state = "off"]

IdleListing ==
    /\ history = <<>>
    /\ listing = [state |-> "off", a |-> 0, b |-> 0, diffs |-> <<>>]

IdleGroupwise ==
    /\ gwt = [handle_unknown |-> "off", fitted |-> FALSE, groups_ |-> {},
              transformers_ |-> <<>>]
    /\ fitted_on = <<>>
    /\ gresult = [op |-> "off", exc |-> None, X |-> <<>>, out |-> <<>>]

IdlePush ==
    /\ push_info = [flags |-> 0]
    /\ pushed = [state |-> "off", ok |-> FALSE]

InitValidate ==
    /\ IdleRange
    /\ IdleDiffer
    /\ IdleCollect
    /\ IdleCheck
    /\ IdlePartition
    /\ IdleListing
    /\ IdleGroupwise
    /\ IdlePush
    /\ project \in [on_pr : BOOLEAN, on_master_after_merge : BOOLEAN]
    /\ call = [entry |-> "none", force |-> FALSE, args |-> NoArgs]
    /\ pc = "idle"
    /\ log = <<>>
    /\ started = <<>>
    /\ bodyRan = <<>>
    /\ work = {}
    /\ outcome = [s \in StageSet |-> "none"]
    /\ observed = [s \in StageSet |-> <<>>]
    /\ error = None
    /\ ret = NoneVal

NextValidate ==
    \/ \E a \in ValidateArgs : validate(a)
    \/ validate_L96
    \/ validate_L98
    \/ validate_L100
    \/ validate_L102
    \/ StageCall

SpecValidate == InitValidate /\ [][NextValidate]_vars

InitRange ==
    /\ repo \in [refs : RefTables]
    /\ commit_range \in RangeStrings
    /\ rpc = "idle"
    /\ endpoints = NoEndpoints
    /\ rev_parsed = <<>>
    /\ IdleValidate
    /\ IdleDiffer
    /\ IdleCollect
    /\ IdleCheck
    /\ IdlePartition
    /\ IdleListing
    /\ IdleGroupwise
    /\ IdlePush

\* a caller resolves the commit range against the repo
GetDiffEndpoints ==
    /\ rpc = "idle"
    /\ LET res == get_diff_endpoints_from_commit_range(repo, commit_range)
       IN  /\ endpoints' = res
           /\ rev_parsed' = res.parsed
    /\ rpc' = "done"
    /\ UNCHANGED <<repo, commit_range>>
    /\ UNCHANGED notR

NextRange == GetDiffEndpoints

SpecRange == InitRange /\ [][NextRange]_vars

InitDiffer ==
    /\ hrepo \in WorkingRepos
    /\ differ = NoDiffer
    /\ dresult = DifferResult("none", None, NoCommit, NoCommit,
                              Detached, NoCommit, NoCommit)
    /\ IdleValidate
    /\ IdleRange
    /\ IdleCollect
    /\ IdleCheck
    /\ IdlePartition
    /\ IdleListing
    /\ IdleGroupwise
    /\ IdlePush

NextDiffer ==
    \/ NewLocalMergeBuildDiffer
    \/ NewLocalPullRequestBuildDiffer
    \/ Differ_diff
    \/ GetPrNum
    \/ SwitchHead
    \/ MoveTip

SpecDiffer == InitDiffer /\ [][NextDiffer]_vars

InitCollect ==
    /\ package \in Packages
    /\ sys_modules = {}
    /\ executed = [i \in 1..Len(package) |-> 0]
    /\ source = [f \in Features |-> NoSource]
    /\ collected = NoCollection
    /\ ncollect = 0
    /\ IdleValidate
    /\ IdleRange
    /\ IdleDiffer
    /\ IdleCheck
    /\ IdlePartition
    /\ IdleListing
    /\ IdleGroupwise
    /\ IdlePush

NextCollect ==
    \/ CollectPackage
    \/ CollectModule
    \/ CollectNotAModule

SpecCollect == InitCollect /\ [][NextCollect]_vars

InitCheck ==
    /\ checks \in CheckLists
    /\ checks_run = <<>>
    /\ report = NoReport
    /\ checked = NoCheck
    /\ IdleValidate
    /\ IdleRange
    /\ IdleDiffer
    /\ IdleCollect
    /\ IdlePartition
    /\ IdleListing
    /\ IdleGroupwise
    /\ IdlePush

NextCheck ==
    \/ ValidateFeature
    \/ DoCheck
    \/ RegisterCheck

SpecCheck == InitCheck /\ [][NextCheck]_vars

InitPartition ==
    /\ file_diffs \in DiffLists
    /\ partitioned = NoPartition
    /\ IdleValidate
    /\ IdleRange
    /\ IdleDiffer
    /\ IdleCollect
    /\ IdleCheck
    /\ IdleListing
    /\ IdleGroupwise
    /\ IdlePush

NextPartition == Partition

SpecPartition == InitPartition /\ [][NextPartition]_vars

InitListing ==
    /\ history \in Histories
    /\ listing = [state |-> "new", a |-> 0, b |-> 0, diffs |-> <<>>]
    /\ IdleValidate
    /\ IdleRange
    /\ IdleDiffer
    /\ IdleCollect
    /\ IdleCheck
    /\ IdlePartition
    /\ IdleGroupwise
    /\ IdlePush

NextListing == ListChanges

SpecListing == InitListing /\ [][NextListing]_vars

InitGroupwise ==
    /\ \E h \in HandleUnknown : gwt = NewGroupwiseTransformer(h)
    /\ fitted_on = <<>>
    /\ gresult = GroupwiseResult("new", None, <<>>, <<>>)
    /\ IdleValidate
    /\ IdleRange
    /\ IdleDiffer
    /\ IdleCollect
    /\ IdleCheck
    /\ IdlePartition
    /\ IdleListing
    /\ IdlePush

NextGroupwise ==
    \/ GroupwiseFit
    \/ GroupwiseTransform

SpecGroupwise == InitGroupwise /\ [][NextGroupwise]_vars

InitPush ==
    /\ push_info \in [flags : PushFlags]
    /\ pushed = [state |-> "new", ok |-> FALSE]
    /\ IdleValidate
    /\ IdleRange
    /\ IdleDiffer
    /\ IdleCollect
    /\ IdleCheck
    /\ IdlePartition
    /\ IdleListing
    /\ IdleGroupwise

NextPush == DidGitPushSucceed

SpecPush == InitPush /\ [][NextPush]_vars

-----------------------------------------------------------------------------
(* Properties of the orchestrator *)

StageIndex(s) == CHOOSE i \in 1..Len(Stages) : Stages[i] = s

StartedSet == {started[i] : i \in 1..Len(started)}

BodyRanSet == {bodyRan[i] : i \in 1..Len(bodyRan)}

Finished == pc \in {"returned", "raised"}

OnPrStages == {"_check_project_structure", "_validate_feature_api",
               "_evaluate_feature_performance"}

\* the skip predicate of the stage table, read off the build context
SkipPredicate(s) ==
    IF s \in OnPrStages THEN ~project.on_pr
                        ELSE ~project.on_master_after_merge

Enabled(s) ==
    CASE s = "_check_project_structure"      -> call.args.check_project_structure
      [] s = "_validate_feature_api"         -> call.args.check_feature_api
      [] s = "_evaluate_feature_performance" -> call.args.evaluate_feature_acceptance
      [] s = "_prune_existing_features"      -> call.args.evaluate_feature_pruning

StageErrors == {"InvalidProjectStructure", "InvalidFeatureApi", "FeatureRejected"}

\* C1: a stage that failed is the last stage that was started: its error is
\* the one the caller of validate() gets, the run stands at "raised", no
\* later stage body ran and the last line of the log is the failure line of
\* that stage (no later start message).
C1_FailurePropagates ==
    \A i \in 1..Len(started) :
        outcome[started[i]] = "failed" =>
            /\ i = Len(started)
            /\ pc = "raised"
            /\ error \in StageErrors
            /\ bodyRan # <<>>
            /\ bodyRan[Len(bodyRan)] = started[i]
            /\ log # <<>>
            /\ log[Len(log)].suffix = "FAILURE"
            /\ \A j \in 1..Len(log) :
                  log[j].suffix = "" =>
                      \E k \in 1..i :
                          log[j].msg = "Ballet Validation: " \o StageMessage(started[k])

C1_Witness ==
    /\ call.entry = "validate"
    /\ pc = "raised"
    /\ outcome["_check_project_structure"] = "failed"
    /\ call.args.check_feature_api
    /\ call.args.evaluate_feature_pruning
    /\ project.on_master_after_merge

\* C2: the skip signal never reaches the caller; an unforced stage whose
\* skip predicate is true ends as skipped without running its body, the
\* call returns and validate() goes on: a run that returned has evaluated
\* every enabled stage, and a run whose enabled stages all have a true skip
\* predicate ends by returning, with no error.
C2_SkipIsNotAnError ==
    /\ error # "SkippedValidationTest"
    /\ \A s \in StartedSet :
          (~call.force /\ SkipPredicate(s)) =>
              /\ outcome[s] = "skipped"
              /\ s \notin BodyRanSet
    /\ (started # <<>> /\ outcome[started[Len(started)]] = "skipped") =>
          /\ pc # "raised"
          /\ error = None
          /\ ret = NoneVal
    /\ (call.entry = "validate" /\ pc = "returned") =>
          \A s \in StageSet : Enabled(s) => s \in StartedSet
    /\ (call.entry = "validate" /\ Finished
          /\ \A s \in StageSet : Enabled(s) => SkipPredicate(s)) =>
          /\ pc = "returned"
          /\ error = None
          /\ \A s \in StageSet : Enabled(s) => outcome[s] = "skipped"

C2_Witness ==
    /\ call.entry = "validate"
    /\ pc = "returned"
    /\ Len(started) = 4
    /\ \A s \in StageSet : outcome[s] = "skipped"

\* C3: a stage called with force = true always runs its body and never ends
\* as skipped, whatever on_pr() and on_master_after_merge() answer.
C3_ForceRunsTheBody ==
    call.force =>
        /\ Finished
        /\ started = <<call.entry>>
        /\ bodyRan = <<call.entry>>
        /\ outcome[call.entry] \in {"ok", "failed"}
        /\ observed[call.entry] # <<>>
        /\ log[Len(log)].suffix # "SKIPPED"

C3_Witness ==
    /\ call.force
    /\ ~project.on_pr
    /\ ~project.on_master_after_merge
    /\ call.entry = "_check_project_structure"
    /\ outcome["_check_project_structure"] = "ok"

\* C4: in a call without force, the bodies of the structure, API and
\* acceptance stages run exactly when the run is on a pull request, and the
\* body of the pruning stage runs exactly when the run is on the main line
\* after a merge.
C4_SkipPredicatePerStage ==
    ~call.force =>
        \A s \in StartedSet :
            /\ s \in OnPrStages => (s \in BodyRanSet <=> project.on_pr)
            /\ s = "_prune_existing_features" =>
                  (s \in BodyRanSet <=> project.on_master_after_merge)

C4_Witness ==
    /\ call.entry = "validate"
    /\ pc = "returned"
    /\ ~project.on_pr
    /\ project.on_master_after_merge
    /\ outcome["_evaluate_feature_performance"] = "skipped"
    /\ bodyRan = <<"_prune_existing_features">>

\* the stage whose failure an error kind stands for
StageOfError(e) ==
    CASE e = "InvalidProjectStructure" -> "_check_project_structure"
      [] e = "InvalidFeatureApi"       -> "_validate_feature_api"
      [] e = "FeatureRejected"         -> "_evaluate_feature_performance"

\* C5: an executed stage whose validator or accepter answered false raised
\* the error kind of its own stage, the pruning stage raises none, and the
\* error kind the caller gets names the one stage that failed.
C5_DistinctErrorPerStage ==
    /\ \A s \in BodyRanSet \cap OnPrStages :
          ~observed[s][1].ok =>
              /\ outcome[s] = "failed"
              /\ error \in StageErrors
              /\ StageOfError(error) = s
    /\ outcome["_prune_existing_features"] # "failed"
    /\ error # None =>
          /\ error \in StageErrors
          /\ \A s \in StageSet :
                outcome[s] = "failed" <=> s = StageOfError(error)
          /\ ~observed[StageOfError(error)][1].ok

C5_Witness ==
    /\ call.entry = "validate"
    /\ error = "InvalidFeatureApi"
    /\ outcome["_check_project_structure"] = "ok"
    /\ outcome["_validate_feature_api"] = "failed"

\* C6: in one invocation of validate() the evaluated stages are enabled
\* ones, they occur in the order structure, API, acceptance, pruning, and
\* none occurs twice.
C6_StageLifecycle ==
    call.entry = "validate" =>
        /\ \A i \in 1..Len(started) : Enabled(started[i])
        /\ \A i, j \in 1..Len(started) :
              i < j => StageIndex(started[i]) < StageIndex(started[j])
        /\ Len(started) <= Len(Stages)

C6_Witness ==
    /\ call.entry = "validate"
    /\ pc = "returned"
    /\ started = <<"_check_project_structure", "_evaluate_feature_performance",
                   "_prune_existing_features">>
    /\ outcome["_check_project_structure"] = "skipped"

-----------------------------------------------------------------------------
(* Properties of the commit range resolution *)

TwoDots == <<".", ".">>

ThreeDots == <<".", ".", ".">>

Resolvable == DOMAIN repo.refs

\* C7: a range A..B whose two tokens resolve gives (resolve(A), resolve(B)):
\* the base is the commit A names, whatever the merge-base of the two is.
C7_TwoDotBaseVerbatim ==
    rpc = "done" =>
        \A A \in Resolvable, B \in Resolvable :
            commit_range = A \o TwoDots \o B =>
                /\ endpoints.exc = None
                /\ endpoints.a = repo.refs[A]
                /\ endpoints.b = repo.refs[B]
                /\ rev_parsed = <<A, B>>

C7_Witness ==
    /\ rpc = "done"
    /\ commit_range = <<"a", "_">> \o TwoDots \o <<"_">>
    /\ repo.refs[<<"_">>] = 3
    /\ merge_base(5, 3) = <<3>>
    /\ endpoints.exc = None
    /\ endpoints.a = 5
    /\ endpoints.b = 3

\* C8: a range A...B whose tokens resolve and for which the store gives
\* exactly one merge-base M gives (M, resolve(B)), also when M is not
\* resolve(A).
C8_ThreeDotBaseIsMergeBase ==
    rpc = "done" =>
        \A A \in Resolvable, B \in Resolvable :
            (/\ commit_range = A \o ThreeDots \o B
             /\ Len(merge_base(repo.refs[A], repo.refs[B])) = 1) =>
                /\ endpoints.exc = None
                /\ endpoints.a = merge_base(repo.refs[A], repo.refs[B])[1]
                /\ endpoints.b = repo.refs[B]

C8_Witness ==
    /\ rpc = "done"
    /\ commit_range = <<"a", "_">> \o ThreeDots \o <<"_">>
    /\ repo.refs[<<"a", "_">>] = 5
    /\ repo.refs[<<"_">>] = 3
    /\ endpoints.exc = None
    /\ endpoints.a = 3
    /\ endpoints.b = 3

\* C9: a range A...B whose tokens resolve and for which the store gives no
\* merge-base or several fails with AmbiguousMergeBase and gives no
\* endpoints.
C9_AmbiguousMergeBaseFails ==
    rpc = "done" =>
        \A A \in Resolvable, B \in Resolvable :
            (/\ commit_range = A \o ThreeDots \o B
             /\ Len(merge_base(repo.refs[A], repo.refs[B])) # 1) =>
                /\ endpoints.exc = "AmbiguousMergeBase"
                /\ endpoints.a = NoCommit
                /\ endpoints.b = NoCommit

C9_Witness ==
    /\ rpc = "done"
    /\ commit_range = <<"a">> \o ThreeDots \o <<"_">>
    /\ repo.refs[<<"a">>] = 3
    /\ repo.refs[<<"_">>] = 4
    /\ Len(merge_base(3, 4)) = 2
    /\ endpoints.exc = "AmbiguousMergeBase"

\* C10: an empty commit range fails with the ValueError for an empty range
\* and nothing was handed to rev_parse.
C10_EmptyRangeFails ==
    (rpc = "done" /\ commit_range = <<>>) =>
        /\ endpoints.exc = "ValueError"
        /\ endpoints.msg = "commit_range cannot be empty"
        /\ endpoints.a = NoCommit
        /\ endpoints.b = NoCommit
        /\ rev_parsed = <<>>

C10_Witness ==
    /\ rpc = "done"
    /\ commit_range = <<>>
    /\ repo.refs[<<"a">>] = 1
    /\ endpoints.exc = "ValueError"

\* a string that is, from its first to its last character, A..B or A...B
\* with A and B non-empty runs of revision characters (the class of
\* REV_REGEX, which is the claim's alphabet and the underscore)
IsWholeRange(s) ==
    \E n \in 1..Len(s), d \in {2, 3} :
        /\ n + d < Len(s)
        /\ IsRev(s, 1, n)
        /\ \A k \in (n + 1)..(n + d) : s[k] = "."
        /\ IsRev(s, n + d + 1, Len(s))

\* C11: a non-empty string that is not as a whole A..B or A...B is rejected
\* as ill-formed and nothing of it is handed to rev_parse.
C11_OnlyWholeRangesAccepted ==
    (rpc = "done" /\ commit_range # <<>> /\ ~IsWholeRange(commit_range)) =>
        /\ endpoints.exc = "ValueError"
        /\ rev_parsed = <<>>


-----------------------------------------------------------------------------
(* Properties of the differs *)

NumParents(c) == Len(ParentList(c))

\* the path is one of a pull-request branch: refs/heads/pull/ and a digit
\* somewhere in it
IsPrPath(path) ==
    \E i \in 1..(Len(path) - 2) :
        <<path[i], path[i + 1]>> = <<"refs/heads/", "pull/">> /\ path[i + 2] = "1"

\* C12: building a LocalMergeBuildDiffer on a tip whose number of parents is
\* not two (0, 1, 3 or more) fails with the assertion error and leaves no
\* differ; a differ of that kind exists only if built on a two-parent tip.
C12_NonMergeTipRejected ==
    /\ (dresult.op = "LocalMergeBuildDiffer" /\ NumParents(dresult.tip) # 2) =>
           (dresult.exc = "AssertionError" /\ differ = NoDiffer)
    /\ differ.kind = "LocalMergeBuildDiffer" => NumParents(differ.built_on) = 2

C12_Witness ==
    /\ dresult.op = "LocalMergeBuildDiffer"
    /\ NumParents(dresult.tip) = 3
    /\ dresult.exc = "AssertionError"

\* C13: diff() of a merge differ on a two-parent tip takes the first parent
\* as base and the second as head, and compares base.diff(head).
C13_MergeEndpointsAreParentsInOrder ==
    (/\ differ.kind = "LocalMergeBuildDiffer"
     /\ dresult.op = "diff"
     /\ NumParents(dresult.tip) = 2) =>
        /\ dresult.exc = None
        /\ dresult.a = ParentList(dresult.tip)[1]
        /\ dresult.b = ParentList(dresult.tip)[2]
        /\ dresult.compared = <<dresult.a, dresult.b>>

C13_Witness ==
    /\ differ.kind = "LocalMergeBuildDiffer"
    /\ dresult.op = "diff"
    /\ dresult.tip = 4
    /\ dresult.compared = <<2, 1>>

\* C14: building a LocalPullRequestBuildDiffer while the head refers to a
\* branch whose path is not a pull-request path fails with the assertion
\* error and leaves no differ; a diff() of such a differ that resolves both
\* names has base = what 'master' points at and head = the tip of the branch
\* the head refers to.
C14_PullRequestDiffer ==
    /\ (/\ dresult.op = "LocalPullRequestBuildDiffer"
        /\ dresult.ref # Detached
        /\ ~IsPrPath(dresult.ref)) =>
           (dresult.exc = "AssertionError" /\ differ = NoDiffer)
    /\ (dresult.op = "LocalPullRequestBuildDiffer" /\ IsPrPath(dresult.ref)) =>
           (dresult.exc = None /\ differ.kind = "LocalPullRequestBuildDiffer")
    /\ (/\ differ.kind = "LocalPullRequestBuildDiffer"
        /\ dresult.op = "diff"
        /\ dresult.exc = None) =>
           /\ dresult.a = dresult.master
           /\ dresult.a # NoCommit
           /\ dresult.b = dresult.tip
           /\ dresult.compared = <<dresult.a, dresult.b>>

C14_Witness ==
    /\ dresult.op = "LocalPullRequestBuildDiffer"
    /\ dresult.ref = <<"refs/heads/", "pull/", "x">>
    /\ dresult.exc = "AssertionError"


-----------------------------------------------------------------------------
(* Properties of the collector *)

RECURSIVE Ascending(_, _)
Ascending(S, i) ==
    IF S = {} THEN <<>>
    ELSE IF i \in S THEN <<i>> \o Ascending(S \ {i}, i + 1)
    ELSE Ascending(S, i + 1)

\* the attributes of module i that are Feature objects
EligibleAttrs(i) == {k \in 1..Len(package[i].attrs) : package[i].attrs[k] \in Features}

Unloadable(i) == package[i].load # "ok"

\* what collecting over the loadable modules alone gives: the modules with
\* exactly one eligible attribute, in the order walked
GoodModules ==
    Ascending({i \in 1..Len(package) :
                  ~Unloadable(i) /\ Cardinality(EligibleAttrs(i)) = 1}, 1)

\* C15: a collection over a package never fails because a module fails to
\* load: every unloadable module is logged, and the features are those of
\* the remaining modules.
C15_LoadFailureIsolated ==
    collected.op = "package" =>
        /\ collected.exc = None
        /\ [k \in 1..Len(collected.features) |-> collected.features[k].mod]
               = GoodModules
        /\ \A i \in 1..Len(package) :
               Unloadable(i) => \E k \in 1..Len(collected.logged) : collected.logged[k] = i

\* C16: each loaded module contributes its Feature tagged with the module
\* when exactly one of its attributes is a Feature and contributes nothing
\* otherwise; the collected list has no empty entry and at most one entry
\* per module.
C16_OneUnitPerModule ==
    /\ \A k \in 1..Len(collected.yielded) :
          LET y == collected.yielded[k]
              eligible == EligibleAttrs(y.mod)
          IN  IF Cardinality(eligible) = 1
              THEN /\ y.ret = <<package[y.mod].attrs[CHOOSE a \in eligible : TRUE]>>
                   /\ y.tag = y.mod
              ELSE y.ret = <<>>
    /\ (collected.op = "package" /\ collected.exc = None) =>
          {collected.yielded[k].mod : k \in 1..Len(collected.yielded)}
              = {i \in 1..Len(package) : package[i].load = "ok"}
    /\ \A k \in 1..Len(collected.features) : collected.features[k].ret # <<>>
    /\ \A j, k \in 1..Len(collected.features) :
          collected.features[j].mod = collected.features[k].mod => j = k

C16_Witness ==
    /\ collected.op = "package"
    /\ Len(collected.yielded) = 2
    /\ Cardinality(EligibleAttrs(1)) = 2
    /\ Cardinality(EligibleAttrs(2)) = 1
    /\ Len(collected.features) = 1
    /\ collected.features[1].mod = 2

\* C20: in one process the code of a module is run at most once, however
\* many collections are made.
C20_LoadOnce ==
    \A i \in 1..Len(package) : executed[i] <= 1


-----------------------------------------------------------------------------
(* Properties of the check framework *)

Validated == report.exc \notin {"none", "off"}

\* the registered checks that report false: the body raised
FailingChecks == {i \in 1..Len(checks) : BodyRaises(checks[i]) # None}

AllChecksInOrder == [i \in 1..Len(checks) |-> i]

InSeq(x, q) == \E k \in 1..Len(q) : q[k] = x

EscapingChecks == {i \in 1..Len(checks) : checks[i] = "raises_SystemExit"}

C18_ResultIsConjunction ==
    (Validated /\ report.exc = None) =>
        /\ report.result = (\A k \in 1..Len(checks_run) : do_check(checks[checks_run[k]]).ret)
        /\ report.result = (report.failures = <<>>)
        /\ \A k \in 1..Len(checks_run) :
               ~do_check(checks[checks_run[k]]).ret => InSeq(checks_run[k], report.failures)

C18_Witness ==
    /\ Validated
    /\ report.exc = None
    /\ Len(report.failures) = 1
    /\ ~report.result
    /\ Len(checks_run) = 3


-----------------------------------------------------------------------------
(* Properties of the change classifier *)

Occurrences(d, q) == Cardinality({k \in 1..Len(q) : q[k] = d})

\* C19: after partitioning, every FileDiff of the run is in exactly one of
\* the admissible and the inadmissible list, nothing else is in them, and a
\* FileDiff outside the contribution root is in the inadmissible list.
C19_PartitionTotalAndDisjoint ==
    partitioned.state = "done" =>
        /\ \A d \in FileDiffs :
              /\ Occurrences(d, partitioned.admissible)
                   + Occurrences(d, partitioned.inadmissible)
                     = Occurrences(d, file_diffs)
              /\ ~(InSeq(d, partitioned.admissible) /\ InSeq(d, partitioned.inadmissible))
        /\ \A k \in 1..Len(file_diffs) :
              ~IsUnder(file_diffs[k].dirs, <<"src", "contrib">>) =>
                  InSeq(file_diffs[k], partitioned.inadmissible)

C19_Witness ==
    /\ partitioned.state = "done"
    /\ file_diffs = <<[dirs |-> <<>>, name |-> "invalid.py"]>>
    /\ partitioned.admissible = <<>>
    /\ Len(partitioned.inadmissible) = 1


-----------------------------------------------------------------------------
(* Properties of the log of a run *)

StartLine(s) == LogLine("Ballet Validation: " \o StageMessage(s), "")

OutcomeLine(s, suffix) == LogLine("Ballet Validation: " \o StageMessage(s), suffix)

Positions(line) == {k \in 1..Len(log) : log[k] = line}

TerminalPositions(s) ==
    UNION {Positions(OutcomeLine(s, suffix)) : suffix \in {"DONE", "SKIPPED", "FAILURE"}}

SuffixOf(o) ==
    CASE o = "ok" -> "DONE"
      [] o = "skipped" -> "SKIPPED"
      [] o = "failed" -> "FAILURE"

\* C21: every stage that was entered has one start line and, after it, one
\* outcome line, which says SKIPPED for a skipped stage, FAILURE for a stage
\* that raised its error and DONE otherwise; a stage that was not entered
\* has no line; the lines of a stage come after those of the stage before
\* it; and when the error has reached the caller the failure line is the
\* last line of the log.
C21_StageLogging ==
    /\ \A s \in StageSet :
          IF s \in StartedSet
          THEN /\ Cardinality(Positions(StartLine(s))) = 1
               /\ Cardinality(TerminalPositions(s)) = 1
               /\ outcome[s] \in {"ok", "skipped", "failed"}
               /\ TerminalPositions(s) = Positions(OutcomeLine(s, SuffixOf(outcome[s])))
               /\ \A p \in Positions(StartLine(s)), t \in TerminalPositions(s) : p < t
          ELSE Positions(StartLine(s)) \cup TerminalPositions(s) = {}
    /\ \A i \in 1..(Len(started) - 1) :
          \A t \in TerminalPositions(started[i]),
             p \in Positions(StartLine(started[i + 1])) : t < p
    /\ pc = "raised" =>
          /\ started # <<>>
          /\ outcome[started[Len(started)]] = "failed"
          /\ log[Len(log)] = OutcomeLine(started[Len(started)], "FAILURE")

C21_Witness ==
    /\ pc = "raised"
    /\ started = <<"_check_project_structure", "_validate_feature_api">>
    /\ outcome["_check_project_structure"] = "ok"
    /\ outcome["_validate_feature_api"] = "failed"
    /\ Len(log) = 4


PruningStage == "_prune_existing_features"

\* the list the pruner gave to the pruning stage
PrunerList == observed[PruningStage][1].redundant

\* the lines of the log between the start and the outcome line of stage s
LinesWithin(s) ==
    LET p == CHOOSE k \in Positions(StartLine(s)) : TRUE
        t == CHOOSE k \in TerminalPositions(s) : TRUE
    IN  [k \in 1..(t - p - 1) |-> log[p + k]]

\* C22: when the body of the pruning stage has run, the stage ended ok with
\* no error, it returned the pruner's list as it got it, and between its
\* start and outcome lines the log has one line per entry of the list, in
\* order, each the marker followed by the source of the entry.
C22_PruningReport ==
    PruningStage \in BodyRanSet =>
        /\ outcome[PruningStage] = "ok"
        /\ error = None
        /\ pc = "returned"
        /\ ret = [none |-> FALSE, list |-> PrunerList]
        /\ Len(LinesWithin(PruningStage)) = Len(PrunerList)
        /\ \A k \in 1..Len(PrunerList) :
              /\ LinesWithin(PruningStage)[k].msg = "Found Redundant Feature: "
              /\ LinesWithin(PruningStage)[k].suffix = PrunerList[k]

C22_Witness ==
    /\ PruningStage \in BodyRanSet
    /\ call.entry = "validate"
    /\ PrunerList = <<"contrib.f2", "contrib.f1">>
    /\ Len(log) = 4


-----------------------------------------------------------------------------
(* Properties of the change listing *)

\* the file that commit i adds: absent before, present after
AddedBy(i) ==
    {f \in Files : history[i][f] # Absent
                   /\ (i = 1 \/ history[i - 1][f] = Absent)}

\* every commit adds one new file and changes nothing else
AddOnlyHistory ==
    /\ \A i \in 1..Len(history) : Cardinality(AddedBy(i)) = 1
    /\ \A i \in 2..Len(history), f \in Files :
          history[i - 1][f] # Absent => history[i][f] = history[i - 1][f]

\* C23: in a history whose every commit adds one new file, the listing from
\* the first to the last commit has one entry less than there are commits:
\* for each commit after the first one entry of kind added that names the
\* file the commit added, and no entry for the file of the first commit.
C23_LinearHistoryListing ==
    (/\ listing.state = "done"
     /\ AddOnlyHistory
     /\ listing.a = 1
     /\ listing.b = Len(history)) =>
        /\ Len(listing.diffs) = Len(history) - 1
        /\ \A i \in 2..Len(history) :
              Cardinality({k \in 1..Len(listing.diffs) :
                              /\ listing.diffs[k].change_type = "A"
                              /\ {listing.diffs[k].path} = AddedBy(i)}) = 1
        /\ \A k \in 1..Len(listing.diffs) :
              /\ listing.diffs[k].change_type = "A"
              /\ listing.diffs[k].path \notin AddedBy(1)

C23_Witness ==
    /\ listing.state = "done"
    /\ AddOnlyHistory
    /\ Len(history) = 3
    /\ listing.a = 1
    /\ listing.b = 3
    /\ Len(listing.diffs) = 2


-----------------------------------------------------------------------------
(* Properties of GroupwiseTransformer *)

SeenGroups == {fitted_on[i].group : i \in 1..Len(fitted_on)}

UnknownRows == {i \in 1..Len(gresult.X) : gresult.X[i].group \notin SeenGroups}

RECURSIVE SumOf(_)
SumOf(q) == IF q = <<>> THEN 0 ELSE q[1].value + SumOf(Tail(q))

\* the sum of the values the group had in the frame given to fit
LearnedFor(g) == SumOf(SelectSeq(fitted_on, LAMBDA r : r.group = g))

\* C24: a transform after a fit, on data with a group not seen in fit,
\* raises Error under handle_unknown 'error' and under 'ignore' gives the
\* rows of that group back unchanged; a transform that returns gives each
\* row of a seen group the value the transformer fitted on that group gives.
C24_GroupwiseUnknownGroups ==
    (gresult.op = "transform" /\ gwt.fitted) =>
        /\ (gwt.handle_unknown = "error" /\ UnknownRows # {}) => gresult.exc = "Error"
        /\ (gwt.handle_unknown = "error" /\ UnknownRows = {}) => gresult.exc = None
        /\ gwt.handle_unknown = "ignore" =>
              /\ gresult.exc = None
              /\ \A i \in UnknownRows : gresult.out[i] = gresult.X[i].value
        /\ gresult.exc = None =>
              /\ Len(gresult.out) = Len(gresult.X)
              /\ \A i \in (1..Len(gresult.X)) \ UnknownRows :
                    gresult.out[i] = 10 * LearnedFor(gresult.X[i].group) + gresult.X[i].value

C24_Witness ==
    /\ gresult.op = "transform"
    /\ gwt.handle_unknown = "ignore"
    /\ fitted_on = <<[group |-> "g1", value |-> 2], [group |-> "g1", value |-> 1]>>
    /\ gresult.X = <<[group |-> "g2", value |-> 2], [group |-> "g1", value |-> 1]>>
    /\ gresult.out = <<2, 31>>


-----------------------------------------------------------------------------
(* Properties of the outcome of a push *)

\* bit k (counted from 0) of the flags is set
HasBit(flags, k) == (flags \div (2^k)) % 2 = 1

\* the positions of REJECTED, REMOTE_REJECTED, REMOTE_FAILURE and ERROR
FailureBits == {3, 4, 5, 10}

\* C25: did_git_push_succeed is true exactly when none of the four failure
\* bits is set in the flags, whatever the other bits are.
C25_PushSucceededIffNoFailureBit ==
    pushed.state = "done" =>
        (pushed.ok <=> \A k \in FailureBits : ~HasBit(push_info.flags, k))

C25_Witness ==
    /\ pushed.state = "done"
    /\ push_info.flags = 1024 + 256 + 2
    /\ ~pushed.ok


-----------------------------------------------------------------------------
(* Properties of a single check *)

BodyReturns(body) == body \in {"returns_true", "returns_false"}

\* C26: do_check returns true exactly when the body of the check returned,
\* whatever it returned: a body that returns false passes; a body that
\* raised an Exception gives false; and in a report the failures are the
\* checks whose body raised, never one whose body returned.
C26_ReturnValueIgnored ==
    /\ checked.check # 0 =>
          /\ (checked.exc = None /\ checked.ret) <=> BodyReturns(checks[checked.check])
          /\ checks[checked.check] = "raises_Exception" =>
                (checked.exc = None /\ ~checked.ret)
    /\ (Validated /\ report.exc = None) =>
          \A i \in 1..Len(checks) :
              InSeq(i, report.failures) <=> ~BodyReturns(checks[i])

C26_Witness ==
    /\ checked.check # 0
    /\ checks[checked.check] = "returns_false"
    /\ checked.ret
    /\ Validated
    /\ report.result


-----------------------------------------------------------------------------
(* Properties of a skipped stage *)

Collaborators == {"ProjectStructureValidator", "FeatureApiValidator",
                  "project.build", "GFSSFAccepter", "GFSSFPruner"}

\* C27: a stage that ended as skipped has used no collaborator (no
\* validator, no build, no accepter, no pruner), was given no answer, its
\* body did not go past the skip decision, and all it left is its start
\* line directly followed by its SKIPPED line.
C27_SkippedStageDoesNoWork ==
    \A s \in StageSet :
        outcome[s] = "skipped" =>
            /\ \A w \in Collaborators : <<s, w>> \notin work
            /\ observed[s] = <<>>
            /\ s \notin BodyRanSet
            /\ \E p \in Positions(StartLine(s)) :
                  /\ p < Len(log)
                  /\ log[p + 1] = OutcomeLine(s, "SKIPPED")
            /\ (started[Len(started)] = s) => (error = None /\ ret = NoneVal)

C27_Witness ==
    /\ outcome["_evaluate_feature_performance"] = "ok"
    /\ outcome["_prune_existing_features"] = "skipped"
    /\ <<"_evaluate_feature_performance", "project.build">> \in work
    /\ pc = "returned"


-----------------------------------------------------------------------------
(* Properties of the collected tags *)

\* the module each entry of the returned sequence was collected from, and
\* the Feature object that entry is
CollectedFrom(k) == collected.features[k].mod
CollectedObject(k) == collected.features[k].ret[1]

\* C28: in the returned sequence every feature's source is the identifier
\* of the module its entry was collected from, and no Feature object occurs
\* twice, whatever modules the object is visible in.
C28_CollectedTagsCorrect ==
    collected.op \in {"package", "module"} =>
        /\ \A k \in 1..Len(collected.features) :
              source[CollectedObject(k)] = CollectedFrom(k)
        /\ \A j, k \in 1..Len(collected.features) :
              CollectedObject(j) = CollectedObject(k) => j = k

\* the part that holds: an object bound to several names of one module
\* makes that module contribute nothing
C28_SeveralNamesOfOneModule ==
    collected.op = "package" /\ collected.exc = None =>
        \A k \in 1..Len(collected.features) :
            Cardinality(EligibleAttrs(CollectedFrom(k))) = 1


-----------------------------------------------------------------------------
(* Properties of pull-request detection *)

\* the number written after refs/heads/pull/ in a pull-request path: k
\* digits 1 in a row are the number 1...1
RunLength(path) ==
    CHOOSE k \in 1..Len(path) :
        /\ \A j \in 3..(k + 2) : j <= Len(path) /\ path[j] = "1"
        /\ ~(k + 3 <= Len(path) /\ path[k + 3] = "1")
        /\ k + 2 <= Len(path)

EmbeddedNumber(path) == ((10 ^ RunLength(path)) - 1) \div 9

\* C29: get_pr_num never raises; it returns a number exactly when the
\* environment check of LocalPullRequestBuildDiffer passes on the same head
\* reference; it returns None on a detached head and on a path that is not a
\* pull-request path, and the number written in the path otherwise.
C29_PrDetectionConsistent ==
    dresult.op = "get_pr_num" =>
        /\ dresult.exc = None
        /\ (dresult.ret # <<>>) <=>
               (LocalPullRequestBuildDiffer_check_environment(
                    [hrepo EXCEPT !.ref = dresult.ref]) = None)
        /\ (dresult.ref = Detached \/ ~IsPrPath(dresult.ref)) => dresult.ret = <<>>
        /\ (dresult.ref # Detached /\ IsPrPath(dresult.ref)) =>
               dresult.ret = <<EmbeddedNumber(dresult.ref)>>

C29_Witness ==
    /\ dresult.op = "get_pr_num"
    /\ dresult.ref = <<"refs/heads/", "pull/", "1">>
    /\ dresult.ret = <<1>>

C29_WitnessDetached ==
    /\ dresult.op = "get_pr_num"
    /\ dresult.ref = Detached
    /\ dresult.ret = <<>>


-----------------------------------------------------------------------------
(* Properties of the merge differ between construction and diff() *)

\* the commit whose parents the last diff() read passes the two-parent check
ReadCommitPassesCheck ==
    LocalMergeBuildDiffer_check_environment([hrepo EXCEPT !.commit = dresult.tip])

\* C30: whatever the repository head did between construction and diff(),
\* diff() of a successfully constructed merge differ compares the two
\* parents of a two-parent merge commit: it does not fail, and the commit
\* whose parents it read passes the two-parent check.
C30_DiffReadsCheckedCommit ==
    (differ.kind = "LocalMergeBuildDiffer" /\ dresult.op = "diff") =>
        /\ ReadCommitPassesCheck
        /\ dresult.exc = None
        /\ dresult.compared = <<ParentList(dresult.tip)[1], ParentList(dresult.tip)[2]>>

\* what holds: the check is made once, on the tip at construction, and
\* diff() reads the tip of the moment; with the tip where it was at
\* construction, diff() compares that commit's two parents
C30_CheckedOnceReadEachTime ==
    /\ differ.kind = "LocalMergeBuildDiffer" => NumParents(differ.built_on) = 2
    /\ (/\ differ.kind = "LocalMergeBuildDiffer"
        /\ dresult.op = "diff"
        /\ dresult.tip = differ.built_on) =>
           /\ dresult.exc = None
           /\ dresult.compared = <<ParentList(differ.built_on)[1],
                                   ParentList(differ.built_on)[2]>>
    /\ (/\ differ.kind = "LocalMergeBuildDiffer"
        /\ dresult.op = "diff"
        /\ NumParents(dresult.tip) < 2) => dresult.exc = "IndexError"

\* a diff() that read the parents of a commit other than the checked one
C30_MovedTipRead ==
    /\ differ.kind = "LocalMergeBuildDiffer"
    /\ dresult.op = "diff"
    /\ differ.built_on = 3
    /\ dresult.tip = 6
    /\ dresult.compared = <<3, 4>>

=============================================================================
